---------------------------- MODULE Spec2Model ----------------------------
(***************************************************************************)
(* Docker Management CLI (src/main.py): the command executor, the resource *)
(* operations built on it and the interactive session controller.          *)
(*                                                                         *)
(* The program is sequential.  It blocks only in input() and while a       *)
(* child process runs; an action of this model is the code that runs from  *)
(* one input() to the next, the child processes it waits for included.     *)
(* What the operator types and what the engine answers are the inputs of   *)
(* an action.                                                              *)
(*                                                                         *)
(* A text (a Python str) is a sequence of one-character strings, so that   *)
(* strip() and lower() are computed and not assumed.                       *)
(***************************************************************************)
EXTENDS Integers, Sequences, FiniteSets, TLC

\* ------------------------------------------------------------------ bounds

\* Operator input is a word with at most MaxPad blanks on each side.
MaxPad == 1

\* The child's exit status is one of 0..MaxExit.
MaxExit == 1

\* ------------------------------------------------------------------- texts

\* str.strip() removes these from both ends.
Whitespace == {" ", "\t", "\n"}

RECURSIVE LStrip(_)
LStrip(s) ==
    IF s # <<>> /\ Head(s) \in Whitespace THEN LStrip(Tail(s)) ELSE s

RECURSIVE RStrip(_)
RStrip(s) ==
    IF s # <<>> /\ s[Len(s)] \in Whitespace
    THEN RStrip(SubSeq(s, 1, Len(s) - 1))
    ELSE s

\* str.strip()
Strip(s) == RStrip(LStrip(s))

LowerMap ==
    ("A" :> "a") @@ ("B" :> "b") @@ ("C" :> "c") @@ ("D" :> "d") @@ ("E" :> "e") @@ ("F" :> "f") @@ ("G" :> "g") @@ ("H" :> "h") @@ ("I" :> "i") @@ ("J" :> "j") @@ ("K" :> "k") @@ ("L" :> "l") @@ ("M" :> "m") @@ ("N" :> "n") @@ ("O" :> "o") @@ ("P" :> "p") @@ ("Q" :> "q") @@ ("R" :> "r") @@ ("S" :> "s") @@ ("T" :> "t") @@ ("U" :> "u") @@ ("V" :> "v") @@ ("W" :> "w") @@ ("X" :> "x") @@ ("Y" :> "y") @@ ("Z" :> "z")

\* str.lower(), one character
LowerChar(c) == IF c \in DOMAIN LowerMap THEN LowerMap[c] ELSE c

\* str.lower()
Lower(s) == [i \in 1..Len(s) |-> LowerChar(s[i])]

\* list.insert(i, x), i counted from 0
Insert(l, i, x) == SubSeq(l, 1, i) \o <<x>> \o SubSeq(l, i + 1, Len(l))

\* ---------------------------------------------------------- literal tokens

\* 'docker'
T_docker ==
    <<"d", "o", "c", "k", "e", "r">>

\* '--version'
T_version ==
    <<"-", "-", "v", "e", "r", "s", "i", "o", "n">>

\* 'images'
T_images ==
    <<"i", "m", "a", "g", "e", "s">>

\* '--format'
T_format ==
    <<"-", "-", "f", "o", "r", "m", "a", "t">>

\* 'table {{.Repository}}\t{{.Tag}}\t{{.ID}}\t{{.Size}}\t{{.CreatedSince}}'
T_images_fmt ==
    <<"t", "a", "b", "l", "e", " ", "{", "{", ".", "R", "e", "p", "o", "s",
    "i", "t", "o", "r", "y", "}", "}", "\t", "{", "{", ".", "T", "a", "g",
    "}", "}", "\t", "{", "{", ".", "I", "D", "}", "}", "\t", "{", "{", ".",
    "S", "i", "z", "e", "}", "}", "\t", "{", "{", ".", "C", "r", "e", "a",
    "t", "e", "d", "S", "i", "n", "c", "e", "}", "}">>

\* 'pull'
T_pull ==
    <<"p", "u", "l", "l">>

\* 'rmi'
T_rmi ==
    <<"r", "m", "i">>

\* 'build'
T_build ==
    <<"b", "u", "i", "l", "d">>

\* '-t'
T_t ==
    <<"-", "t">>

\* 'ps'
T_ps ==
    <<"p", "s">>

\* 'table {{.ID}}\t{{.Names}}\t{{.Image}}\t{{.Status}}\t{{.Ports}}'
T_ps_fmt ==
    <<"t", "a", "b", "l", "e", " ", "{", "{", ".", "I", "D", "}", "}", "\t",
    "{", "{", ".", "N", "a", "m", "e", "s", "}", "}", "\t", "{", "{", ".",
    "I", "m", "a", "g", "e", "}", "}", "\t", "{", "{", ".", "S", "t", "a",
    "t", "u", "s", "}", "}", "\t", "{", "{", ".", "P", "o", "r", "t", "s",
    "}", "}">>

\* '-a'
T_a ==
    <<"-", "a">>

\* 'run'
T_run ==
    <<"r", "u", "n">>

\* '-d'
T_d ==
    <<"-", "d">>

\* '--name'
T_name ==
    <<"-", "-", "n", "a", "m", "e">>

\* '-p'
T_p ==
    <<"-", "p">>

\* 'stop'
T_stop ==
    <<"s", "t", "o", "p">>

\* 'start'
T_start ==
    <<"s", "t", "a", "r", "t">>

\* 'restart'
T_restart ==
    <<"r", "e", "s", "t", "a", "r", "t">>

\* 'rm'
T_rm ==
    <<"r", "m">>

\* '-f'
T_f ==
    <<"-", "f">>

\* 'logs'
T_logs ==
    <<"l", "o", "g", "s">>

\* '--tail'
T_tail ==
    <<"-", "-", "t", "a", "i", "l">>

\* '50'
T_50 ==
    <<"5", "0">>

\* 'exec'
T_exec ==
    <<"e", "x", "e", "c">>

\* '-it'
T_it ==
    <<"-", "i", "t">>

\* '/bin/bash'
T_bash ==
    <<"/", "b", "i", "n", "/", "b", "a", "s", "h">>

\* 'system'
T_system ==
    <<"s", "y", "s", "t", "e", "m">>

\* 'info'
T_info ==
    <<"i", "n", "f", "o">>

\* 'prune'
T_prune ==
    <<"p", "r", "u", "n", "e">>

\* 'df'
T_df ==
    <<"d", "f">>

\* '/Dockerfile'
T_slash_Dockerfile ==
    <<"/", "D", "o", "c", "k", "e", "r", "f", "i", "l", "e">>

\* '.'
T_dot ==
    <<".">>

\* ---------------------------------------------------------- operator input

Blanks(n) == [i \in 1..n |-> " "]

\* A word as the operator may type it: blanks before and after.
Pad(w) == { Blanks(l) \o w \o Blanks(r) : l \in 0..MaxPad, r \in 0..MaxPad }

Typed(words) == UNION { Pad(w) : w \in words }

W_nginx == <<"n", "g", "i", "n", "x", ":", "l", "a", "t", "e", "s", "t">>
W_web1 == <<"w", "e", "b", "1">>
W_port == <<"8", "0", "8", "0", ":", "8", "0">>
W_app == <<"a", "p", "p">>

MenuWords ==
    { <<>>, <<"x">>, <<"1">>, <<"2">>, <<"3">>, <<"4">>, <<"5">>, <<"6">>,
      <<"7">>, <<"8">>, <<"9">>, <<"1", "0">>, <<"1", "1">> }

ImageWords == { <<>>, W_nginx, <<"m", "y", " ", "i", "m", "g">> }

ContainerWords == { <<>>, W_web1, <<"d", "b">> }

PortWords == { <<>>, W_port }

PathWords == { <<>>, T_dot, W_app }

ConfirmWords ==
    { <<>>, <<"s">>, <<"S">>, <<"n">>, <<"s", "i">>, <<"y">>,
      <<"y", "e", "s">> }

PauseWords == { <<>>, <<"x">> }

\* The lines the operator may type at each kind of prompt.
MenuLines == Typed(MenuWords)
ImageLines == Typed(ImageWords)
ContainerLines == Typed(ContainerWords)
PortLines == Typed(PortWords)
PathLines == Typed(PathWords)
ConfirmLines == Typed(ConfirmWords)
PauseLines == Typed(PauseWords)

\* The build descriptors that may exist on disk.
Files == { T_dot \o T_slash_Dockerfile }

\* ------------------------------------------------------- the engine's answer

StdoutTexts == { <<>>, <<" ", "\n">>, <<"a", "b", "c", "1", "\n">> }

StderrTexts == { <<>>, <<"E", "r", "r", "\n">> }

\* What a child process can do: exit with a status, or never run because
\* the binary is not found or the spawn fails, or be interrupted while the
\* parent waits.
Exited(code, o, e) ==
    [kind |-> "exit", code |-> code, stdout |-> o, stderr |-> e]

NotFound == [kind |-> "notfound", code |-> -1, stdout |-> <<>>, stderr |-> <<>>]

SpawnFailed == [kind |-> "oserror", code |-> -1, stdout |-> <<>>, stderr |-> <<>>]

Interrupted ==
    [kind |-> "interrupt", code |-> -1, stdout |-> <<>>, stderr |-> <<>>]

Outcomes ==
    { Exited(0, t, <<>>) : t \in StdoutTexts }
    \cup { Exited(c, <<>>, e) : c \in 1..MaxExit, e \in StderrTexts }
    \cup { NotFound, SpawnFailed, Interrupted }

\* subprocess.run without check=True: a non-zero exit raises nothing.
subprocess_run_nocheck(command, o) ==
    CASE o.kind = "notfound" -> "FileNotFoundError"
      [] o.kind = "oserror" -> "PermissionError"
      [] o.kind = "interrupt" -> "KeyboardInterrupt"
      [] OTHER -> "none"

\* subprocess.run(command, check=True): the exception it raises, if any.
subprocess_run(command, o) ==
    CASE o.kind = "notfound" -> "FileNotFoundError"
      [] o.kind = "oserror" -> "PermissionError"
      [] o.kind = "interrupt" -> "KeyboardInterrupt"
      [] o.kind = "exit" /\ o.code # 0 -> "CalledProcessError"
      [] OTHER -> "none"

\* Optional[str]
None == [none |-> TRUE, text |-> <<>>]
Some(t) == [none |-> FALSE, text |-> t]

\* Python's truth value of an Optional[str]
Truthy(v) == ~v.none /\ v.text # <<>>

\* A printed line: what it is, and the engine text it carries.
Line(kind, text) == [kind |-> kind, text |-> text]
L(kind) == Line(kind, <<>>)

\* One invocation of the executor, as recorded.
Invocation(command, mode, o) ==
    [tokens |-> command, mode |-> mode, outcome |-> o]

\* ------------------------------------------------------------ DockerManager


\* run_command with the except clause left out: CalledProcessError leaves it.
run_command_uncaught(command, o) ==
    LET raised == subprocess_run(command, o)
    IN  IF raised = "none"
        THEN [raised |-> "none", ret |-> Some(Strip(o.stdout)),
              printed |-> <<>>]
        ELSE [raised |-> raised, ret |-> None, printed |-> <<>>]

\* run_command with an except clause that also takes the spawn's OSError and
\* returns None for it.
run_command_swallows_fault(command, o) ==
    LET raised == subprocess_run(command, o)
    IN  CASE raised = "none" ->
               [raised |-> "none", ret |-> Some(Strip(o.stdout)),
                printed |-> <<>>]
          [] raised \in {"CalledProcessError", "FileNotFoundError",
                         "PermissionError"} ->
               [raised |-> "none", ret |-> None,
                printed |-> <<Line("cmd_error", Strip(o.stderr))>>]
          [] OTHER ->
               [raised |-> raised, ret |-> None, printed |-> <<>>]

\* DockerManager.run_command: the value returned, the line printed, the
\* exception that leaves it.
run_command(command, o) ==
    LET raised == subprocess_run(command, o)
    IN  CASE raised = "none" ->
               [raised |-> "none", ret |-> Some(Strip(o.stdout)),
                printed |-> <<>>]
          [] raised = "CalledProcessError" ->
               [raised |-> "none", ret |-> None,
                printed |-> <<Line("cmd_error", Strip(o.stderr))>>]
          [] OTHER ->
               [raised |-> raised, ret |-> None, printed |-> <<>>]


\* run_command_interactive returning True from its except clause.
run_command_interactive_always_true(command, o) ==
    LET raised == subprocess_run(command, o)
    IN  CASE raised = "none" -> [raised |-> "none", ret |-> (o.code = 0)]
          [] raised = "CalledProcessError" -> [raised |-> "none", ret |-> TRUE]
          [] OTHER -> [raised |-> raised, ret |-> FALSE]

\* run_command_interactive with an except clause that also takes
\* FileNotFoundError and returns False for it.
run_command_interactive_swallows(command, o) ==
    LET raised == subprocess_run(command, o)
    IN  CASE raised = "none" -> [raised |-> "none", ret |-> (o.code = 0)]
          [] raised \in {"CalledProcessError", "FileNotFoundError"} ->
               [raised |-> "none", ret |-> FALSE]
          [] OTHER -> [raised |-> raised, ret |-> FALSE]

\* DockerManager.run_command_interactive
run_command_interactive(command, o) ==
    LET raised == subprocess_run(command, o)
    IN  CASE raised = "none" -> [raised |-> "none", ret |-> (o.code = 0)]
          [] raised = "CalledProcessError" -> [raised |-> "none", ret |-> FALSE]
          [] OTHER -> [raised |-> raised, ret |-> FALSE]

\* ----------------------------------------------- the effect of a piece of code

\* What a piece of code did: the executor invocations it made, the lines it
\* printed, and the exception that left it ("none": it ran to its end).
Effect(c, l, r) == [calls |-> c, out |-> l, raised |-> r]

Nothing == Effect(<<>>, <<>>, "none")

Say(kind) == Effect(<<>>, <<L(kind)>>, "none")

\* e1; e2
Then(e1, e2) ==
    IF e1.raised # "none"
    THEN e1
    ELSE Effect(e1.calls \o e2.calls, e1.out \o e2.out, e2.raised)

\* r = self.dm.run_command(command); if r: print(ok) else: print(bad)
\* given r, the result of run_command for outcome o.
Captured(command, o, r, ok, bad) ==
    Effect(<<Invocation(command, "captured", o)>>,
           r.printed \o
             (IF r.raised # "none" THEN <<>>
              ELSE IF Truthy(r.ret) THEN ok ELSE bad),
           r.raised)

\* if self.dm.run_command_interactive(command): print(ok) else: print(bad)
\* given r, the result of run_command_interactive for outcome o.
Interactive(command, o, r, ok, bad) ==
    Effect(<<Invocation(command, "interactive", o)>>,
           IF r.raised # "none" THEN <<>>
           ELSE IF r.ret THEN ok ELSE bad,
           r.raised)

Banner(n) == Effect(<<>>, [i \in 1..n |-> L("banner")], "none")

\* s[:n]
Prefix(s, n) == SubSeq(s, 1, IF Len(s) < n THEN Len(s) ELSE n)

\* ------------------------------------------------------------- ImageManager

\* ImageManager.list_images
list_images(o) ==
    LET command == <<T_docker, T_images, T_format, T_images_fmt>>
        r == run_command(command, o)
    IN  Then(Banner(2),
             Captured(command, o, r,
                      <<Line("listing", r.ret.text)>>, <<L("list_failed")>>))

\* pull_image without the test of image_name.
pull_image_do_unchecked(image_name, o) ==
    LET command == <<T_docker, T_pull, image_name>>
        r == run_command_interactive(command, o)
    IN  Then(Say("progress"),
             Interactive(command, o, r, <<L("success")>>, <<L("failure")>>))

\* ImageManager.pull_image, after image_name is read
pull_image_do(image_name, o) ==
    IF image_name = <<>>
    THEN Say("validation")
    ELSE LET command == <<T_docker, T_pull, image_name>>
             r == run_command_interactive(command, o)
         IN  Then(Say("progress"),
                  Interactive(command, o, r, <<L("success")>>, <<L("failure")>>))

\* remove_image without its call of list_images.
remove_image_list_skipped(o) == Banner(1)

\* ImageManager.remove_image, up to the prompt for image_id
remove_image_list(o) == Then(list_images(o), Banner(1))

\* ImageManager.remove_image, the test of image_id
remove_image_check(image_id) ==
    IF image_id = <<>> THEN Say("validation") ELSE Nothing


\* remove_image with the gate turned round: anything but n proceeds.
remove_image_do_default_yes(image_id, confirm, o) ==
    IF confirm # <<"n">>
    THEN LET command == <<T_docker, T_rmi, image_id>>
             r == run_command(command, o)
         IN  Captured(command, o, r, <<L("success")>>, <<L("failure")>>)
    ELSE Nothing

\* ImageManager.remove_image, after confirm is read
remove_image_do(image_id, confirm, o) ==
    IF confirm = <<"s">>
    THEN LET command == <<T_docker, T_rmi, image_id>>
             r == run_command(command, o)
         IN  Captured(command, o, r, <<L("success")>>, <<L("failure")>>)
    ELSE Nothing

\* os.path.exists(f"{dockerfile_path}/Dockerfile")
DockerfileExists(dockerfile_path, files) ==
    (dockerfile_path \o T_slash_Dockerfile) \in files


\* build_image without the test of os.path.exists.
build_image_do_unchecked(dockerfile_path, image_name, files, o) ==
    IF image_name = <<>>
    THEN Say("validation")
    ELSE LET command == <<T_docker, T_build, T_t, image_name, dockerfile_path>>
             r == run_command_interactive(command, o)
         IN  Then(Say("progress"),
                  Interactive(command, o, r, <<L("success")>>, <<L("failure")>>))

\* ImageManager.build_image, after dockerfile_path and image_name are read
build_image_do(dockerfile_path, image_name, files, o) ==
    IF image_name = <<>>
    THEN Say("validation")
    ELSE IF ~DockerfileExists(dockerfile_path, files)
    THEN Say("validation")
    ELSE LET command == <<T_docker, T_build, T_t, image_name, dockerfile_path>>
             r == run_command_interactive(command, o)
         IN  Then(Say("progress"),
                  Interactive(command, o, r, <<L("success")>>, <<L("failure")>>))

\* --------------------------------------------------------- ContainerManager

\* ContainerManager.list_containers
list_containers(all_containers, o) ==
    LET cmd == <<T_docker, T_ps, T_format, T_ps_fmt>>
        command == IF all_containers THEN Insert(cmd, 2, T_a) ELSE cmd
        r == run_command(command, o)
    IN  Then(Banner(2),
             Captured(command, o, r,
                      <<Line("listing", r.ret.text)>>, <<L("list_failed")>>))


\* run_container extending the command with --name whatever the name is.
run_container_cmd_always_name(image_name, container_name, port_mapping) ==
    <<T_docker, T_run, T_d>>
    \o <<T_name, container_name>>
    \o (IF port_mapping # <<>> THEN <<T_p, port_mapping>> ELSE <<>>)
    \o <<image_name>>

\* ContainerManager.run_container: the command built
run_container_cmd(image_name, container_name, port_mapping) ==
    <<T_docker, T_run, T_d>>
    \o (IF container_name # <<>> THEN <<T_name, container_name>> ELSE <<>>)
    \o (IF port_mapping # <<>> THEN <<T_p, port_mapping>> ELSE <<>>)
    \o <<image_name>>

\* ContainerManager.run_container, after its three inputs are read
run_container_do(image_name, container_name, port_mapping, o) ==
    IF image_name = <<>>
    THEN Say("validation")
    ELSE LET command ==
                 run_container_cmd(image_name, container_name, port_mapping)
             r == run_command(command, o)
         IN  Captured(command, o, r,
                      <<Line("success", Prefix(r.ret.text, 12))>>,
                      <<L("failure")>>)


\* stop_container without the test of container_id.
stop_container_do_unchecked(container_id, o) ==
    LET command == <<T_docker, T_stop, container_id>>
        r == run_command(command, o)
    IN  Captured(command, o, r, <<L("success")>>, <<L("failure")>>)

\* ContainerManager.stop_container, after container_id is read
stop_container_do(container_id, o) ==
    IF container_id = <<>>
    THEN Say("validation")
    ELSE LET command == <<T_docker, T_stop, container_id>>
             r == run_command(command, o)
         IN  Captured(command, o, r, <<L("success")>>, <<L("failure")>>)

\* ContainerManager.start_container, after container_id is read
start_container_do(container_id, o) ==
    IF container_id = <<>>
    THEN Say("validation")
    ELSE LET command == <<T_docker, T_start, container_id>>
             r == run_command(command, o)
         IN  Captured(command, o, r, <<L("success")>>, <<L("failure")>>)

\* ContainerManager.restart_container, after container_id is read
restart_container_do(container_id, o) ==
    IF container_id = <<>>
    THEN Say("validation")
    ELSE LET command == <<T_docker, T_restart, container_id>>
             r == run_command(command, o)
         IN  Captured(command, o, r, <<L("success")>>, <<L("failure")>>)

\* ContainerManager.remove_container, the test of container_id
remove_container_check(container_id) ==
    IF container_id = <<>> THEN Say("validation") ELSE Nothing


\* remove_container without the force flag.
remove_container_do_unforced(container_id, confirm, o) ==
    IF confirm = <<"s">>
    THEN LET command == <<T_docker, T_rm, container_id>>
             r == run_command(command, o)
         IN  Captured(command, o, r, <<L("success")>>, <<L("failure")>>)
    ELSE Nothing

\* ContainerManager.remove_container, after confirm is read
remove_container_do(container_id, confirm, o) ==
    IF confirm = <<"s">>
    THEN LET command == <<T_docker, T_rm, T_f, container_id>>
             r == run_command(command, o)
         IN  Captured(command, o, r, <<L("success")>>, <<L("failure")>>)
    ELSE Nothing

\* ContainerManager.view_logs, after container_id is read
view_logs_do(container_id, o) ==
    IF container_id = <<>>
    THEN Say("validation")
    ELSE LET command == <<T_docker, T_logs, T_tail, T_50, container_id>>
             r == run_command_interactive(command, o)
         IN  Then(Banner(2), Interactive(command, o, r, <<>>, <<>>))

\* ContainerManager.exec_container, after container_id is read
exec_container_do(container_id, o) ==
    IF container_id = <<>>
    THEN Say("validation")
    ELSE LET command == <<T_docker, T_exec, T_it, container_id, T_bash>>
             r == run_command_interactive(command, o)
         IN  Then(Say("progress"), Interactive(command, o, r, <<>>, <<>>))

\* ------------------------------------------------------------ SystemManager

\* SystemManager.system_info
system_info(o) ==
    LET command == <<T_docker, T_system, T_info>>
        r == run_command_interactive(command, o)
    IN  Then(Banner(2), Interactive(command, o, r, <<>>, <<>>))


\* system_cleanup taking any answer that starts with s.
system_cleanup_do_prefix(confirm, o) ==
    IF confirm # <<>> /\ Head(confirm) = "s"
    THEN LET command == <<T_docker, T_system, T_prune, T_a, T_f>>
             r == run_command_interactive(command, o)
         IN  Interactive(command, o, r, <<L("success")>>, <<L("failure")>>)
    ELSE Nothing

\* SystemManager.system_cleanup, after confirm is read
system_cleanup_do(confirm, o) ==
    IF confirm = <<"s">>
    THEN LET command == <<T_docker, T_system, T_prune, T_a, T_f>>
             r == run_command_interactive(command, o)
         IN  Interactive(command, o, r, <<L("success")>>, <<L("failure")>>)
    ELSE Nothing

\* SystemManager.disk_usage
disk_usage(o) ==
    LET command == <<T_docker, T_system, T_df>>
        r == run_command_interactive(command, o)
    IN  Then(Banner(2), Interactive(command, o, r, <<>>, <<>>))

\* -------------------------------------------------------------------- state

VARIABLES
    pc,         \* where the process waits: "startup", "choice", a prompt of
                \* an operation, "pause", or "done" (terminated)
    state,      \* "Startup", the menu the controller is in, or "Exit"
    op,         \* the operation selected at the menu ("none": none)
    loc,        \* the local variables of the operation, as read so far
    calls,      \* the executor invocations since the selection was read
    out,        \* the lines printed since the selection was read
    lastInput,  \* the line most recently read, as typed
    fs,         \* the build descriptors that exist on disk
    exitStatus, \* the process's exit status (-1: still running)
    fault,      \* the exception that ended the process, and where it was caught
    event       \* what the last step met: "startup", a "line" read by
                \* input(), an "interrupt" or an "eof" raised by input()

vars ==
    <<pc, state, op, loc, calls, out, lastInput, fs, exitStatus, fault, event>>

Menus == {"MainMenu", "ImageMenu", "ContainerMenu", "SystemMenu"}

Prompts ==
    { "pull_image.image_name", "remove_image.image_id", "remove_image.confirm",
      "build_image.dockerfile_path", "build_image.image_name",
      "run_container.image_name", "run_container.container_name",
      "run_container.port_mapping", "stop_container.container_id",
      "start_container.container_id", "restart_container.container_id",
      "remove_container.container_id", "remove_container.confirm",
      "view_logs.container_id", "exec_container.container_id",
      "system_cleanup.confirm" }

\* The places where the process waits in input().
InputWaits == {"choice", "pause"} \cup Prompts

NoLocals ==
    [image_name |-> <<>>, container_name |-> <<>>, port_mapping |-> <<>>,
     image_id |-> <<>>, container_id |-> <<>>, dockerfile_path |-> <<>>,
     confirm |-> <<>>]

NoFault == [exc |-> "none", caught |-> "none"]

Fresh == [calls |-> <<>>, out |-> <<>>]
SoFar == [calls |-> calls, out |-> out]

Init ==
    /\ pc = "startup"
    /\ state = "Startup"
    /\ op = "none"
    /\ loc = NoLocals
    /\ calls = <<>>
    /\ out = <<>>
    /\ lastInput = <<>>
    /\ fs \in SUBSET Files
    /\ exitStatus = -1
    /\ fault = NoFault
    /\ event = "init"

\* ---------------------------------------------------------------- DockerCLI

\* DockerCLI.run, its except clauses: the line printed for an exception that
\* reaches them.
run_except(raised) ==
    CASE raised = "none" -> <<>>
      [] raised = "KeyboardInterrupt" -> <<L("interrupted")>>
      [] OTHER -> <<L("unexpected")>>

\* DockerCLI.run with the try statement inside the while loop: the exception
\* is reported and the main menu is shown again.
Goto_continues(eff, pre, raw, nop, nloc, npc, nstate) ==
    /\ event' = "line"
    /\ lastInput' = raw
    /\ calls' = pre.calls \o eff.calls
    /\ out' = pre.out \o eff.out \o run_except(eff.raised)
    /\ op' = nop
    /\ loc' = nloc
    /\ IF eff.raised = "none"
       THEN /\ pc' = npc
            /\ state' = nstate
            /\ UNCHANGED <<exitStatus, fault>>
       ELSE /\ pc' = "choice"
            /\ state' = "MainMenu"
            /\ fault' = [exc |-> eff.raised, caught |-> "run"]
            /\ UNCHANGED exitStatus
    /\ UNCHANGED fs

\* The code from one input() to the next inside DockerCLI.run: it read `raw`,
\* ran with effect `eff` after what `pre` holds, and now waits at `npc` in
\* `nstate`; an exception that leaves it reaches run's except clauses, run
\* returns and the process ends with status 0.
Goto(eff, pre, raw, nop, nloc, npc, nstate) ==
    /\ event' = "line"
    /\ lastInput' = raw
    /\ calls' = pre.calls \o eff.calls
    /\ out' = pre.out \o eff.out \o run_except(eff.raised)
    /\ op' = nop
    /\ loc' = nloc
    /\ IF eff.raised = "none"
       THEN /\ pc' = npc
            /\ state' = nstate
            /\ UNCHANGED <<exitStatus, fault>>
       ELSE /\ pc' = "done"
            /\ state' = "Exit"
            /\ exitStatus' = 0
            /\ fault' = [exc |-> eff.raised, caught |-> "run"]
    /\ UNCHANGED fs

\* DockerCLI.__init__ and DockerManager.check_docker_installed, then the
\* first rendering of the main menu by DockerCLI.run.
Startup(o) ==
    /\ pc = "startup"
    /\ LET command == <<T_docker, T_version>>
           raised == subprocess_run(command, o)
       IN  /\ calls' = <<Invocation(command, "captured", o)>>
           /\ CASE raised = "none" ->
                     /\ out' = <<Line("probe_ok", Strip(o.stdout)), L("menu")>>
                     /\ pc' = "choice"
                     /\ state' = "MainMenu"
                     /\ UNCHANGED <<exitStatus, fault>>
                [] raised \in {"CalledProcessError", "FileNotFoundError"} ->
                     /\ out' = <<L("probe_failed")>>
                     /\ pc' = "done"
                     /\ exitStatus' = 1
                     /\ fault' = [exc |-> "SystemExit", caught |-> "none"]
                     /\ UNCHANGED state
                [] OTHER ->
                     /\ out' = <<>>
                     /\ pc' = "done"
                     /\ exitStatus' =
                            IF raised = "KeyboardInterrupt" THEN 130 ELSE 1
                     /\ fault' = [exc |-> raised, caught |-> "none"]
                     /\ UNCHANGED state
    /\ event' = "startup"
    /\ UNCHANGED <<op, loc, lastInput, fs>>


\* DockerCLI.run with the else branch leaving the loop as option 4 does.
run_else_breaks(raw) ==
    /\ pc = "choice"
    /\ state = "MainMenu"
    /\ LET choice == Strip(raw)
       IN  CASE choice = <<"1">> ->
                  Goto(Say("menu"), Fresh, raw, "none", NoLocals, "choice",
                       "ImageMenu")
             [] choice = <<"2">> ->
                  Goto(Say("menu"), Fresh, raw, "none", NoLocals, "choice",
                       "ContainerMenu")
             [] choice = <<"3">> ->
                  Goto(Say("menu"), Fresh, raw, "none", NoLocals, "choice",
                       "SystemMenu")
             [] OTHER ->
                  /\ event' = "line"
                  /\ lastInput' = raw
                  /\ out' = <<L("invalid_option")>>
                  /\ calls' = <<>>
                  /\ pc' = "done"
                  /\ state' = "Exit"
                  /\ exitStatus' = 0
                  /\ UNCHANGED <<op, loc, fs, fault>>

\* DockerCLI.run: one selection at the main menu.
run(raw) ==
    /\ pc = "choice"
    /\ state = "MainMenu"
    /\ LET choice == Strip(raw)
       IN  CASE choice = <<"1">> ->
                  Goto(Say("menu"), Fresh, raw, "none", NoLocals, "choice",
                       "ImageMenu")
             [] choice = <<"2">> ->
                  Goto(Say("menu"), Fresh, raw, "none", NoLocals, "choice",
                       "ContainerMenu")
             [] choice = <<"3">> ->
                  Goto(Say("menu"), Fresh, raw, "none", NoLocals, "choice",
                       "SystemMenu")
             [] choice = <<"4">> ->
                  /\ event' = "line"
                  /\ lastInput' = raw
                  /\ out' = <<L("goodbye")>>
                  /\ calls' = <<>>
                  /\ pc' = "done"
                  /\ state' = "Exit"
                  /\ exitStatus' = 0
                  /\ UNCHANGED <<op, loc, fs, fault>>
             [] OTHER ->
                  Goto(Say("invalid_option"), Fresh, raw, "none", NoLocals,
                       "pause", "MainMenu")

\* DockerCLI.handle_image_menu: one selection.
handle_image_menu(raw, o) ==
    /\ pc = "choice"
    /\ state = "ImageMenu"
    /\ LET choice == Strip(raw)
       IN  CASE choice = <<"1">> ->
                  Goto(list_images(o), Fresh, raw, "list_images", NoLocals,
                       "pause", state)
             [] choice = <<"2">> ->
                  Goto(Banner(1), Fresh, raw, "pull_image", NoLocals,
                       "pull_image.image_name", state)
             [] choice = <<"3">> ->
                  Goto(Banner(1), Fresh, raw, "build_image", NoLocals,
                       "build_image.dockerfile_path", state)
             [] choice = <<"4">> ->
                  Goto(remove_image_list(o), Fresh, raw, "remove_image",
                       NoLocals, "remove_image.image_id", state)
             [] choice = <<"5">> ->
                  Goto(Say("menu"), Fresh, raw, "none", NoLocals, "choice",
                       "MainMenu")
             [] OTHER ->
                  Goto(Say("invalid_option"), Fresh, raw, "none", NoLocals,
                       "pause", state)

\* DockerCLI.handle_container_menu: one selection.
handle_container_menu(raw, o) ==
    /\ pc = "choice"
    /\ state = "ContainerMenu"
    /\ LET choice == Strip(raw)
           list == Then(list_containers(TRUE, o), Banner(1))
       IN  CASE choice = <<"1">> ->
                  Goto(list_containers(FALSE, o), Fresh, raw,
                       "list_containers", NoLocals, "pause", state)
             [] choice = <<"2">> ->
                  Goto(list_containers(TRUE, o), Fresh, raw,
                       "list_containers", NoLocals, "pause", state)
             [] choice = <<"3">> ->
                  Goto(Banner(1), Fresh, raw, "run_container", NoLocals,
                       "run_container.image_name", state)
             [] choice = <<"4">> ->
                  Goto(list, Fresh, raw, "start_container", NoLocals,
                       "start_container.container_id", state)
             [] choice = <<"5">> ->
                  Goto(list, Fresh, raw, "stop_container", NoLocals,
                       "stop_container.container_id", state)
             [] choice = <<"6">> ->
                  Goto(list, Fresh, raw, "restart_container", NoLocals,
                       "restart_container.container_id", state)
             [] choice = <<"7">> ->
                  Goto(list, Fresh, raw, "remove_container", NoLocals,
                       "remove_container.container_id", state)
             [] choice = <<"8">> ->
                  Goto(list, Fresh, raw, "view_logs", NoLocals,
                       "view_logs.container_id", state)
             [] choice = <<"9">> ->
                  Goto(Then(list_containers(FALSE, o), Banner(1)), Fresh, raw,
                       "exec_container", NoLocals,
                       "exec_container.container_id", state)
             [] choice = <<"1", "0">> ->
                  Goto(Say("menu"), Fresh, raw, "none", NoLocals, "choice",
                       "MainMenu")
             [] OTHER ->
                  Goto(Say("invalid_option"), Fresh, raw, "none", NoLocals,
                       "pause", state)

\* DockerCLI.handle_system_menu with option 4 ending the session as the main
\* menu's option 4 does.
handle_system_menu_back_exits(raw, o) ==
    /\ pc = "choice"
    /\ state = "SystemMenu"
    /\ LET choice == Strip(raw)
       IN  CASE choice = <<"1">> ->
                  Goto(system_info(o), Fresh, raw, "system_info", NoLocals,
                       "pause", state)
             [] choice = <<"2">> ->
                  Goto(disk_usage(o), Fresh, raw, "disk_usage", NoLocals,
                       "pause", state)
             [] choice = <<"3">> ->
                  Goto(Banner(6), Fresh, raw, "system_cleanup", NoLocals,
                       "system_cleanup.confirm", state)
             [] choice = <<"4">> ->
                  /\ event' = "line"
                  /\ lastInput' = raw
                  /\ out' = <<L("goodbye")>>
                  /\ calls' = <<>>
                  /\ pc' = "done"
                  /\ state' = "Exit"
                  /\ exitStatus' = 0
                  /\ UNCHANGED <<op, loc, fs, fault>>
             [] OTHER ->
                  Goto(Say("invalid_option"), Fresh, raw, "none", NoLocals,
                       "pause", state)

\* DockerCLI.handle_system_menu: one selection.
handle_system_menu(raw, o) ==
    /\ pc = "choice"
    /\ state = "SystemMenu"
    /\ LET choice == Strip(raw)
       IN  CASE choice = <<"1">> ->
                  Goto(system_info(o), Fresh, raw, "system_info", NoLocals,
                       "pause", state)
             [] choice = <<"2">> ->
                  Goto(disk_usage(o), Fresh, raw, "disk_usage", NoLocals,
                       "pause", state)
             [] choice = <<"3">> ->
                  Goto(Banner(6), Fresh, raw, "system_cleanup", NoLocals,
                       "system_cleanup.confirm", state)
             [] choice = <<"4">> ->
                  Goto(Say("menu"), Fresh, raw, "none", NoLocals, "choice",
                       "MainMenu")
             [] OTHER ->
                  Goto(Say("invalid_option"), Fresh, raw, "none", NoLocals,
                       "pause", state)

\* input("Presiona Enter para continuar..."), then the menu is shown again.
Continue(raw) ==
    /\ pc = "pause"
    /\ Goto(Say("menu"), Fresh, raw, "none", NoLocals, "choice", state)

\* DockerCLI.run without its except KeyboardInterrupt clause: the interrupt
\* leaves main and the interpreter ends the process.
InputInterrupt_uncaught ==
    /\ pc \in InputWaits
    /\ pc' = "done"
    /\ exitStatus' = 130
    /\ fault' = [exc |-> "KeyboardInterrupt", caught |-> "none"]
    /\ event' = "interrupt"
    /\ UNCHANGED <<state, out, op, loc, calls, lastInput, fs>>

\* KeyboardInterrupt raised in input(): DockerCLI.run's first except clause.
InputInterrupt ==
    /\ pc \in InputWaits
    /\ out' = out \o run_except("KeyboardInterrupt")
    /\ pc' = "done"
    /\ state' = "Exit"
    /\ exitStatus' = 0
    /\ fault' = [exc |-> "KeyboardInterrupt", caught |-> "run"]
    /\ event' = "interrupt"
    /\ UNCHANGED <<op, loc, calls, lastInput, fs>>

\* EOFError raised in input() (the input is closed): DockerCLI.run's second
\* except clause.
InputEOF ==
    /\ pc \in InputWaits
    /\ out' = out \o run_except("EOFError")
    /\ pc' = "done"
    /\ state' = "Exit"
    /\ exitStatus' = 0
    /\ fault' = [exc |-> "EOFError", caught |-> "run"]
    /\ event' = "eof"
    /\ UNCHANGED <<op, loc, calls, lastInput, fs>>

\* --------------------------------------------- the prompts of the operations

\* ImageManager.pull_image
pull_image(raw, o) ==
    /\ pc = "pull_image.image_name"
    /\ LET image_name == Strip(raw)
       IN  Goto(pull_image_do(image_name, o), SoFar, raw, op,
                [loc EXCEPT !.image_name = image_name], "pause", state)

\* ImageManager.remove_image: image_id is read
remove_image_id(raw) ==
    /\ pc = "remove_image.image_id"
    /\ LET image_id == Strip(raw)
       IN  Goto(remove_image_check(image_id), SoFar, raw, op,
                [loc EXCEPT !.image_id = image_id],
                IF image_id = <<>> THEN "pause" ELSE "remove_image.confirm",
                state)

\* ImageManager.remove_image: confirm is read
remove_image(raw, o) ==
    /\ pc = "remove_image.confirm"
    /\ LET confirm == Lower(Strip(raw))
       IN  Goto(remove_image_do(loc.image_id, confirm, o), SoFar, raw, op,
                [loc EXCEPT !.confirm = confirm], "pause", state)

\* ImageManager.build_image: dockerfile_path is read
build_image_path(raw) ==
    /\ pc = "build_image.dockerfile_path"
    /\ LET dockerfile_path == IF Strip(raw) # <<>> THEN Strip(raw) ELSE T_dot
       IN  Goto(Nothing, SoFar, raw, op,
                [loc EXCEPT !.dockerfile_path = dockerfile_path],
                "build_image.image_name", state)

\* ImageManager.build_image: image_name is read
build_image(raw, o) ==
    /\ pc = "build_image.image_name"
    /\ LET image_name == Strip(raw)
       IN  Goto(build_image_do(loc.dockerfile_path, image_name, fs, o), SoFar,
                raw, op, [loc EXCEPT !.image_name = image_name], "pause",
                state)

\* ContainerManager.run_container: image_name is read
run_container_image(raw) ==
    /\ pc = "run_container.image_name"
    /\ Goto(Nothing, SoFar, raw, op, [loc EXCEPT !.image_name = Strip(raw)],
            "run_container.container_name", state)

\* ContainerManager.run_container: container_name is read
run_container_name(raw) ==
    /\ pc = "run_container.container_name"
    /\ Goto(Nothing, SoFar, raw, op,
            [loc EXCEPT !.container_name = Strip(raw)],
            "run_container.port_mapping", state)

\* ContainerManager.run_container: port_mapping is read
run_container(raw, o) ==
    /\ pc = "run_container.port_mapping"
    /\ LET port_mapping == Strip(raw)
       IN  Goto(run_container_do(loc.image_name, loc.container_name,
                                 port_mapping, o),
                SoFar, raw, op, [loc EXCEPT !.port_mapping = port_mapping],
                "pause", state)

\* ContainerManager.stop_container
stop_container(raw, o) ==
    /\ pc = "stop_container.container_id"
    /\ LET container_id == Strip(raw)
       IN  Goto(stop_container_do(container_id, o), SoFar, raw, op,
                [loc EXCEPT !.container_id = container_id], "pause", state)

\* ContainerManager.start_container
start_container(raw, o) ==
    /\ pc = "start_container.container_id"
    /\ LET container_id == Strip(raw)
       IN  Goto(start_container_do(container_id, o), SoFar, raw, op,
                [loc EXCEPT !.container_id = container_id], "pause", state)

\* ContainerManager.restart_container
restart_container(raw, o) ==
    /\ pc = "restart_container.container_id"
    /\ LET container_id == Strip(raw)
       IN  Goto(restart_container_do(container_id, o), SoFar, raw, op,
                [loc EXCEPT !.container_id = container_id], "pause", state)

\* ContainerManager.remove_container: container_id is read
remove_container_id(raw) ==
    /\ pc = "remove_container.container_id"
    /\ LET container_id == Strip(raw)
       IN  Goto(remove_container_check(container_id), SoFar, raw, op,
                [loc EXCEPT !.container_id = container_id],
                IF container_id = <<>>
                THEN "pause" ELSE "remove_container.confirm",
                state)

\* ContainerManager.remove_container: confirm is read
remove_container(raw, o) ==
    /\ pc = "remove_container.confirm"
    /\ LET confirm == Lower(Strip(raw))
       IN  Goto(remove_container_do(loc.container_id, confirm, o), SoFar, raw,
                op, [loc EXCEPT !.confirm = confirm], "pause", state)

\* ContainerManager.view_logs
view_logs(raw, o) ==
    /\ pc = "view_logs.container_id"
    /\ LET container_id == Strip(raw)
       IN  Goto(view_logs_do(container_id, o), SoFar, raw, op,
                [loc EXCEPT !.container_id = container_id], "pause", state)

\* ContainerManager.exec_container
exec_container(raw, o) ==
    /\ pc = "exec_container.container_id"
    /\ LET container_id == Strip(raw)
       IN  Goto(exec_container_do(container_id, o), SoFar, raw, op,
                [loc EXCEPT !.container_id = container_id], "pause", state)

\* SystemManager.system_cleanup: confirm is read
system_cleanup(raw, o) ==
    /\ pc = "system_cleanup.confirm"
    /\ LET confirm == Lower(Strip(raw))
       IN  Goto(system_cleanup_do(confirm, o), SoFar, raw, op,
                [loc EXCEPT !.confirm = confirm], "pause", state)

\* ------------------------------------------------------------ specification

\* Each line is read only at the prompt where the program waits for it.
Next ==
    \/ /\ pc = "startup"
       /\ \E o \in Outcomes : Startup(o)
    \/ /\ pc = "choice"
       /\ \E raw \in MenuLines : run(raw)
    \/ /\ pc = "choice"
       /\ \E raw \in MenuLines, o \in Outcomes : handle_image_menu(raw, o)
    \/ /\ pc = "choice"
       /\ \E raw \in MenuLines, o \in Outcomes : handle_container_menu(raw, o)
    \/ /\ pc = "choice"
       /\ \E raw \in MenuLines, o \in Outcomes : handle_system_menu(raw, o)
    \/ /\ pc = "pause"
       /\ \E raw \in PauseLines : Continue(raw)
    \/ InputInterrupt
    \/ InputEOF
    \/ /\ pc = "pull_image.image_name"
       /\ \E raw \in ImageLines, o \in Outcomes : pull_image(raw, o)
    \/ /\ pc = "remove_image.image_id"
       /\ \E raw \in ImageLines : remove_image_id(raw)
    \/ /\ pc = "remove_image.confirm"
       /\ \E raw \in ConfirmLines, o \in Outcomes : remove_image(raw, o)
    \/ /\ pc = "build_image.dockerfile_path"
       /\ \E raw \in PathLines : build_image_path(raw)
    \/ /\ pc = "build_image.image_name"
       /\ \E raw \in ImageLines, o \in Outcomes : build_image(raw, o)
    \/ /\ pc = "run_container.image_name"
       /\ \E raw \in ImageLines : run_container_image(raw)
    \/ /\ pc = "run_container.container_name"
       /\ \E raw \in ContainerLines : run_container_name(raw)
    \/ /\ pc = "run_container.port_mapping"
       /\ \E raw \in PortLines, o \in Outcomes : run_container(raw, o)
    \/ /\ pc = "stop_container.container_id"
       /\ \E raw \in ContainerLines, o \in Outcomes : stop_container(raw, o)
    \/ /\ pc = "start_container.container_id"
       /\ \E raw \in ContainerLines, o \in Outcomes : start_container(raw, o)
    \/ /\ pc = "restart_container.container_id"
       /\ \E raw \in ContainerLines, o \in Outcomes : restart_container(raw, o)
    \/ /\ pc = "remove_container.container_id"
       /\ \E raw \in ContainerLines : remove_container_id(raw)
    \/ /\ pc = "remove_container.confirm"
       /\ \E raw \in ConfirmLines, o \in Outcomes : remove_container(raw, o)
    \/ /\ pc = "view_logs.container_id"
       /\ \E raw \in ContainerLines, o \in Outcomes : view_logs(raw, o)
    \/ /\ pc = "exec_container.container_id"
       /\ \E raw \in ContainerLines, o \in Outcomes : exec_container(raw, o)
    \/ /\ pc = "system_cleanup.confirm"
       /\ \E raw \in ConfirmLines, o \in Outcomes : system_cleanup(raw, o)

Spec == Init /\ [][Next]_vars

\* ------------------------------------------------- vocabulary of the claims

\* Every character of a typed line is a blank: it is empty after trimming.
Blank(raw) == \A i \in 1..Len(raw) : raw[i] \in Whitespace

\* A typed line that is the letter s, in either case, between blanks.
SaysYes(raw) ==
    \E i \in 1..Len(raw) :
        /\ raw[i] \in {"s", "S"}
        /\ \A j \in (1..Len(raw)) \ {i} : raw[j] \in Whitespace

\* docker rmi <id>, docker rm ..., docker system prune ...
IsDestructive(tokens) ==
    /\ Len(tokens) >= 3
    /\ tokens[1] = T_docker
    /\ \/ tokens[2] = T_rmi
       \/ tokens[2] = T_rm
       \/ tokens[2] = T_system /\ tokens[3] = T_prune

\* docker images ..., docker ps ...: the snapshot listings
IsListing(tokens) ==
    /\ Len(tokens) >= 2
    /\ tokens[1] = T_docker
    /\ tokens[2] \in {T_images, T_ps}

HasLine(kind) == \E i \in 1..Len(out) : out[i].kind = kind

\* The operation has returned to its menu loop, which waits in the pause.
Returned == pc = "pause" /\ op # "none"

\* A destructive operation whose Confirmation Gate was answered: the answer
\* is the line read last.
GateAnswered ==
    /\ Returned
    /\ \/ op = "remove_image" /\ loc.image_id # <<>>
       \/ op = "remove_container" /\ loc.container_id # <<>>
       \/ op = "system_cleanup"

GateAborted == GateAnswered /\ ~SaysYes(lastInput)

\* ------------------------------------------------------------------- claims

\* C1, as stated: when the Confirmation Gate of a destructive operation
\* evaluates to abort, no executor invocation at all has been made since the
\* operation was selected.
C1_NoInvocationAtAll == GateAborted => Len(calls) = 0

\* C1, amended: when the Confirmation Gate of a destructive operation
\* evaluates to abort, no destructive Command was built and the executor was
\* not invoked after the gate: the only invocation since the operation was
\* selected is the snapshot listing that remove image and remove container
\* make before they prompt (none for system prune).
C1_AbortInvokesOnlyListing ==
    GateAborted =>
        /\ Len(calls) = (IF op = "system_cleanup" THEN 0 ELSE 1)
        /\ \A i \in 1..Len(calls) :
               IsListing(calls[i].tokens) /\ ~IsDestructive(calls[i].tokens)
        /\ ~HasLine("success") /\ ~HasLine("failure")

C1_Witness ==
    /\ GateAborted
    /\ op = "remove_image"
    /\ loc.image_id = W_nginx
    /\ lastInput = <<"s", "i">>
    /\ Len(calls) = 1

\* C2: an executor invocation of a destructive command is the last one of a
\* destructive operation and follows a confirmation answer that is s after
\* trimming and lower-casing; any other answer, the empty, "si", "y" and
\* "yes" included, leaves no destructive command executed.
C2_DestructiveOnlyAfterYes ==
    /\ \A i \in 1..Len(calls) :
           IsDestructive(calls[i].tokens) =>
               /\ op \in {"remove_image", "remove_container", "system_cleanup"}
               /\ i = Len(calls)
               /\ pc \in {"pause", "done"}
               /\ SaysYes(lastInput)
               /\ loc.confirm = <<"s">>
    /\ GateAborted => \A i \in 1..Len(calls) : ~IsDestructive(calls[i].tokens)

C2_Witness ==
    /\ op = "system_cleanup"
    /\ lastInput = <<" ", "S">>
    /\ Len(calls) = 1
    /\ calls[1].tokens = <<T_docker, T_system, T_prune, T_a, T_f>>
    /\ calls[1].outcome.code = 0

\* The required input of the operation is empty after trimming.
RequiredEmpty ==
    /\ Returned
    /\ CASE op \in {"pull_image", "build_image", "run_container"} ->
                loc.image_name = <<>>
         [] op = "remove_image" -> loc.image_id = <<>>
         [] op \in {"start_container", "stop_container", "restart_container",
                    "remove_container", "view_logs", "exec_container"} ->
                loc.container_id = <<>>
         [] OTHER -> FALSE

ListFirst ==
    {"remove_image", "start_container", "stop_container", "restart_container",
     "remove_container", "view_logs", "exec_container"}

\* C3, as stated: when the required input is empty after trimming, the
\* operation ends with a validation message and the executor was never
\* invoked during the operation.
C3_NeverInvoked ==
    RequiredEmpty => HasLine("validation") /\ Len(calls) = 0

\* C3, amended: when the required input is empty after trimming, the
\* operation ends with a validation message as its last line and the
\* executor is not invoked once the input is read, so the operation's own
\* command is never run; the operations that list before they act have
\* invoked the executor once by then, for the snapshot listing.
C3_EmptyInputRunsNoCommand ==
    RequiredEmpty =>
        /\ out # <<>> /\ out[Len(out)].kind = "validation"
        /\ ~HasLine("success") /\ ~HasLine("failure")
        /\ Len(calls) = (IF op \in ListFirst THEN 1 ELSE 0)
        /\ \A i \in 1..Len(calls) : IsListing(calls[i].tokens)

C3_Witness ==
    /\ RequiredEmpty
    /\ op = "stop_container"
    /\ lastInput = <<" ">>
    /\ Len(calls) = 1
    /\ calls[1].tokens = <<T_docker, T_ps, T_a, T_format, T_ps_fmt>>

\* C4: run-container hands the executor <<docker, run, -d>>, then --name and
\* the name only if the name is not empty, then -p and the port mapping only
\* if the mapping is not empty, then the image; no token is empty, each
\* omitted field makes the Command two tokens shorter, and with both omitted
\* the Command is <<docker, run, -d, image>>.
C4_RunContainerTokens ==
    (op = "run_container" /\ calls # <<>>) =>
        LET t == calls[1].tokens
            n == loc.container_name
            p == loc.port_mapping
        IN  /\ Len(calls) = 1
            /\ calls[1].mode = "captured"
            /\ loc.image_name # <<>>
            /\ (p = <<>>) <=> Blank(lastInput)
            /\ Len(t) = 4 + (IF n # <<>> THEN 2 ELSE 0)
                          + (IF p # <<>> THEN 2 ELSE 0)
            /\ t[1] = T_docker /\ t[2] = T_run /\ t[3] = T_d
            /\ t[Len(t)] = loc.image_name
            /\ \A k \in 1..Len(t) : t[k] # <<>>
            /\ n # <<>> => t[4] = T_name /\ t[5] = n
            /\ n = <<>> => \A k \in 1..Len(t) : t[k] # T_name
            /\ p # <<>> => t[Len(t) - 2] = T_p /\ t[Len(t) - 1] = p
            /\ p = <<>> => \A k \in 1..Len(t) : t[k] # T_p
            /\ (n = <<>> /\ p = <<>>) =>
                   t = <<T_docker, T_run, T_d, loc.image_name>>

C4_Witness ==
    /\ op = "run_container"
    /\ loc.image_name = W_nginx
    /\ loc.container_name = <<>>
    /\ lastInput = <<" ">>
    /\ Len(calls) = 1
    /\ calls[1].tokens = <<T_docker, T_run, T_d, W_nginx>>

\* C5: once remove-container's Confirmation Gate is answered s, the executor
\* has received <<docker, rm, -f, id>> for the identifier typed, whatever the
\* listing before it returned.
C5_RemoveContainerForced ==
    (op = "remove_container" /\ loc.confirm = <<"s">>) =>
        /\ loc.container_id # <<>>
        /\ Len(calls) = 2
        /\ IsListing(calls[1].tokens)
        /\ calls[2].tokens = <<T_docker, T_rm, T_f, loc.container_id>>
        /\ calls[2].mode = "captured"

C5_Witness ==
    /\ op = "remove_container"
    /\ loc.confirm = <<"s">>
    /\ loc.container_id = W_web1
    /\ Len(calls) = 2
    /\ calls[1].outcome.code = 1
    /\ calls[2].tokens = <<T_docker, T_rm, T_f, W_web1>>

\* C6: build invokes the executor only if <path>/Dockerfile exists, an empty
\* path standing for "."; with the descriptor absent the operation ends in
\* a validation message and no child process was spawned.
C6_BuildNeedsDockerfile ==
    /\ (pc = "build_image.image_name" /\ Blank(lastInput)) =>
           loc.dockerfile_path = T_dot
    /\ (op = "build_image" /\ calls # <<>>) =>
           /\ (loc.dockerfile_path \o T_slash_Dockerfile) \in fs
           /\ Len(calls) = 1
           /\ calls[1].tokens =
                  <<T_docker, T_build, T_t, loc.image_name,
                    loc.dockerfile_path>>
    /\ (Returned /\ op = "build_image"
          /\ (loc.dockerfile_path \o T_slash_Dockerfile) \notin fs) =>
           /\ calls = <<>>
           /\ out[Len(out)].kind = "validation"
           /\ ~HasLine("success") /\ ~HasLine("failure")

C6_Witness ==
    /\ Returned
    /\ op = "build_image"
    /\ loc.dockerfile_path = T_dot
    /\ loc.image_name = W_nginx
    /\ fs = {}
    /\ calls = <<>>
    /\ HasLine("validation")

\* The option codes each menu recognizes.
Options(menu) ==
    CASE menu = "MainMenu" -> { <<"1">>, <<"2">>, <<"3">>, <<"4">> }
      [] menu = "ImageMenu" -> { <<"1">>, <<"2">>, <<"3">>, <<"4">>, <<"5">> }
      [] menu = "ContainerMenu" ->
             { <<"1">>, <<"2">>, <<"3">>, <<"4">>, <<"5">>, <<"6">>, <<"7">>,
               <<"8">>, <<"9">>, <<"1", "0">> }
      [] menu = "SystemMenu" -> { <<"1">>, <<"2">>, <<"3">>, <<"4">> }
      [] OTHER -> {}

\* C7: in every menu state, reading an unrecognized option leaves the
\* controller in the same menu state, selects no operation, invokes the
\* executor not at all and prints one diagnostic line; the pause that
\* follows leads back to the same menu.
C7_UnrecognizedOptionStays ==
    [][ /\ (pc = "choice" /\ event' = "line"
              /\ Strip(lastInput') \notin Options(state)) =>
               /\ state' = state
               /\ state' \in Menus
               /\ pc' = "pause"
               /\ op' = "none"
               /\ calls' = <<>>
               /\ out' = <<L("invalid_option")>>
               /\ fault' = NoFault
        /\ (pc = "pause" /\ event' = "line") =>
               state' = state /\ pc' = "choice"
      ]_vars

C7_Witness ==
    /\ state = "ContainerMenu"
    /\ pc = "pause"
    /\ op = "none"
    /\ lastInput = <<"1", "1">>
    /\ calls = <<>>
    /\ out = <<L("invalid_option")>>

\* The invocations made and the lines printed by the step.
NewCalls ==
    IF pc \in {"startup", "choice", "pause"}
    THEN calls'
    ELSE SubSeq(calls', Len(calls) + 1, Len(calls'))

NewLines ==
    IF pc \in {"startup", "choice", "pause"}
    THEN out'
    ELSE SubSeq(out', Len(out) + 1, Len(out'))

ConfirmPrompts ==
    {"remove_image.confirm", "remove_container.confirm",
     "system_cleanup.confirm"}

\* C8: a step in which an engine command of an operation exits non-zero, or
\* an operation ends in a validation message, or the operator declines a
\* Confirmation Gate, leaves the session running in the menu state the
\* operation was selected from.
C8_FailureKeepsSession ==
    [][ (/\ event' = "line"
         /\ \/ \E i \in 1..Len(NewCalls) :
                   /\ NewCalls[i].outcome.kind = "exit"
                   /\ NewCalls[i].outcome.code # 0
            \/ \E i \in 1..Len(NewLines) : NewLines[i].kind = "validation"
            \/ pc \in ConfirmPrompts /\ ~SaysYes(lastInput')) =>
            /\ state' = state
            /\ state' \in Menus
            /\ pc' \in InputWaits
            /\ exitStatus' = -1
            /\ fault' = NoFault
      ]_vars

C8_Witness ==
    /\ state = "ContainerMenu"
    /\ pc = "pause"
    /\ op = "stop_container"
    /\ Len(calls) = 2
    /\ calls[2].outcome.kind = "exit"
    /\ calls[2].outcome.code = 1
    /\ out[Len(out)].kind = "failure"

\* An invocation of an operation for which no process ever ran.
Faulted(i) == calls[i].outcome.kind \in {"notfound", "oserror"}

\* C9, as stated: when the executor signals an ExecutionFault during an
\* operation, the operation maps it to a failure and returns normally to its
\* menu.
C9_FaultReturnsToMenu ==
    (op # "none" /\ \E i \in 1..Len(calls) : Faulted(i)) =>
        /\ state \in Menus
        /\ pc \in InputWaits
        /\ HasLine("failure")

\* C9, amended: an operation that returns to its menu ran only commands
\* whose process exited, so it ended as Ok, ValidationFailed, Aborted or
\* EngineFailed; an ExecutionFault (binary not found, OS-level spawn failure)
\* is not mapped by the operation: it leaves the operation as the raw
\* exception, is caught by the session's outermost handler, which reports it,
\* and the session ends in Exit instead of returning to the menu.
C9_FaultEndsSession ==
    /\ (op # "none" /\ \E i \in 1..Len(calls) : Faulted(i)) =>
           /\ Faulted(Len(calls))
           /\ \A i \in 1..(Len(calls) - 1) : ~Faulted(i)
           /\ pc = "done"
           /\ state = "Exit"
           /\ exitStatus = 0
           /\ fault.caught = "run"
           /\ fault.exc \in {"FileNotFoundError", "PermissionError"}
           /\ out[Len(out)].kind = "unexpected"
           /\ ~HasLine("success") /\ ~HasLine("failure")
    /\ Returned =>
           \A i \in 1..Len(calls) : calls[i].outcome.kind = "exit"

C9_Witness ==
    /\ op = "stop_container"
    /\ Len(calls) = 2
    /\ calls[2].outcome = SpawnFailed
    /\ state = "Exit"
    /\ fault = [exc |-> "PermissionError", caught |-> "run"]

ResultKinds == {"success", "failure", "cmd_error", "listing", "list_failed"}

\* C10: in either mode, when the binary named by the Command is not found
\* the executor returns no result: FileNotFoundError leaves it and the
\* calling operation, which prints neither its success line nor its failure
\* line in that step.
C10_NotFoundYieldsNoResult ==
    [][ (/\ event' = "line"
         /\ \E i \in 1..Len(NewCalls) : NewCalls[i].outcome.kind = "notfound")
        =>
            /\ Len(NewCalls) = 1
            /\ NewCalls[1].mode \in {"captured", "interactive"}
            /\ fault'.exc = "FileNotFoundError"
            /\ pc' = "done"
            /\ \A i \in 1..Len(NewLines) : NewLines[i].kind \notin ResultKinds
            /\ NewLines[Len(NewLines)].kind = "unexpected"
      ]_vars

C10_Witness ==
    /\ op = "pull_image"
    /\ pc = "done"
    /\ Len(calls) = 1
    /\ calls[1].mode = "interactive"
    /\ calls[1].outcome = NotFound
    /\ fault.exc = "FileNotFoundError"
    /\ ~HasLine("success") /\ ~HasLine("failure")

\* C11: when the startup probe finds no binary or exits non-zero, the
\* process has terminated with a non-zero status without entering MainMenu:
\* no menu was rendered, no input was read, no operation was selected and the
\* probe is the only invocation; when the probe exits with zero the session
\* starts in MainMenu, waiting for a selection.
C11_ProbeFailureIsFatal ==
    /\ (event = "startup" /\ subprocess_run(calls[1].tokens, calls[1].outcome)
                               # "none") =>
           /\ pc = "done"
           /\ state = "Startup"
           /\ exitStatus > 0
    /\ (event = "startup"
          /\ \/ calls[1].outcome.kind = "notfound"
             \/ calls[1].outcome.kind = "exit" /\ calls[1].outcome.code # 0) =>
           /\ pc = "done"
           /\ exitStatus = 1
           /\ out = <<L("probe_failed")>>
    /\ (event = "startup" /\ calls[1].outcome.kind = "exit"
          /\ calls[1].outcome.code = 0) =>
           /\ pc = "choice"
           /\ state = "MainMenu"
           /\ exitStatus = -1
    /\ state = "Startup" =>
           /\ ~HasLine("menu")
           /\ lastInput = <<>>
           /\ event \in {"init", "startup"}
           /\ op = "none"
           /\ Len(calls) <= 1
           /\ \A i \in 1..Len(calls) :
                  calls[i].tokens = <<T_docker, T_version>>
           /\ pc = "done" => ~ENABLED Next

C11_Witness ==
    /\ state = "Startup"
    /\ pc = "done"
    /\ exitStatus = 1
    /\ calls[1].outcome.kind = "exit"
    /\ calls[1].outcome.code = 1
    /\ out = <<L("probe_failed")>>

\* C12: an interrupt raised in any input wait ends the session at once: the
\* step reaches Exit with status zero, makes no executor call and selects no
\* operation, and nothing is read or run after it.
C12_InterruptExitsCleanly ==
    [][ /\ event' = "interrupt" =>
               /\ pc \in InputWaits
               /\ state \in Menus
               /\ pc' = "done"
               /\ state' = "Exit"
               /\ exitStatus' = 0
               /\ fault' = [exc |-> "KeyboardInterrupt", caught |-> "run"]
               /\ calls' = calls
               /\ op' = op
               /\ lastInput' = lastInput
               /\ out' = out \o <<L("interrupted")>>
        /\ event # "interrupt"
      ]_vars

C12_Witness ==
    /\ event = "interrupt"
    /\ op = "remove_container"
    /\ loc.container_id = W_web1
    /\ loc.confirm = <<>>
    /\ Len(calls) = 1
    /\ state = "Exit"
    /\ exitStatus = 0

\* C13: an unexpected fault raised inside the session, by input() or by the
\* spawn of a command of any operation, is caught by the outermost handler
\* of the session, reported once, and the session is in Exit, where nothing
\* more can happen.
C13_FaultCaughtOnceAtTop ==
    (\/ event = "eof"
     \/ state # "Startup" /\ \E i \in 1..Len(calls) : Faulted(i)) =>
        /\ pc = "done"
        /\ state = "Exit"
        /\ exitStatus = 0
        /\ fault.caught = "run"
        /\ fault.exc \in {"EOFError", "FileNotFoundError", "PermissionError"}
        /\ Cardinality({i \in 1..Len(out) : out[i].kind = "unexpected"}) = 1
        /\ out[Len(out)].kind = "unexpected"
        /\ ~HasLine("interrupted")
        /\ ~ENABLED Next

C13_Witness ==
    /\ state = "Exit"
    /\ op = "list_containers"
    /\ Len(calls) = 1
    /\ calls[1].outcome = SpawnFailed
    /\ fault = [exc |-> "PermissionError", caught |-> "run"]
    /\ out[Len(out)].kind = "unexpected"

ExitedWith(i) ==
    IF calls[i].outcome.kind = "exit" THEN calls[i].outcome.code ELSE -1

\* C14: a success reported by the probe, by a listing or by an operation
\* comes from a child that exited with status zero, and every captured
\* invocation of an operation whose child exits non-zero is classified as a
\* failure: the executor prints its error line and the operation its failure
\* line, never its success line.
C14_SuccessImpliesExitZero ==
    /\ HasLine("success") => calls # <<>> /\ ExitedWith(Len(calls)) = 0
    /\ HasLine("listing") =>
           calls # <<>> /\ IsListing(calls[1].tokens) /\ ExitedWith(1) = 0
    /\ HasLine("probe_ok") => Len(calls) = 1 /\ ExitedWith(1) = 0
    /\ op # "none" =>
           /\ \A i \in 1..Len(calls) :
                  (calls[i].mode = "captured" /\ ExitedWith(i) > 0) =>
                      /\ HasLine("cmd_error")
                      /\ IF IsListing(calls[i].tokens)
                         THEN HasLine("list_failed") /\ ~HasLine("listing")
                         ELSE HasLine("failure") /\ ~HasLine("success")
           /\ Cardinality({i \in 1..Len(out) : out[i].kind = "cmd_error"})
                = Cardinality({i \in 1..Len(calls) :
                                  /\ calls[i].mode = "captured"
                                  /\ ExitedWith(i) > 0})

C14_Witness ==
    /\ Returned
    /\ op = "remove_image"
    /\ Len(calls) = 2
    /\ ExitedWith(1) = 0
    /\ HasLine("listing")
    /\ ExitedWith(2) = 1
    /\ out[Len(out)].kind = "failure"

\* C15, as stated: a captured-mode operation renders its success line (a
\* listing: the engine's table) whenever its child exits with status zero,
\* whatever the child wrote to stdout, and its failure line only when the
\* child exits non-zero.
C15_ExitZeroRendersSuccess ==
    (op # "none" /\ pc \in InputWaits) =>
        \A i \in 1..Len(calls) :
            (calls[i].mode = "captured" /\ ExitedWith(i) = 0) =>
                IF IsListing(calls[i].tokens)
                THEN HasLine("listing") /\ ~HasLine("list_failed")
                ELSE HasLine("success") /\ ~HasLine("failure")

\* C16, as stated: when the engine command of an operation exits non-zero,
\* the operation has rendered a failure line when it returns to its menu.
C16_NonZeroExitRendersFailure ==
    Returned =>
        \A i \in 1..Len(calls) :
            ExitedWith(i) > 0 =>
                IF IsListing(calls[i].tokens)
                THEN HasLine("list_failed")
                ELSE HasLine("failure")

\* The snapshot listing each list-before-act operation runs.
ListingFor(o) ==
    CASE o = "remove_image" -> <<T_docker, T_images, T_format, T_images_fmt>>
      [] o = "exec_container" -> <<T_docker, T_ps, T_format, T_ps_fmt>>
      [] OTHER -> <<T_docker, T_ps, T_a, T_format, T_ps_fmt>>

\* The command each list-before-act operation runs on identifier id.
TargetFor(o, id) ==
    CASE o = "remove_image" -> <<T_docker, T_rmi, id>>
      [] o = "start_container" -> <<T_docker, T_start, id>>
      [] o = "stop_container" -> <<T_docker, T_stop, id>>
      [] o = "restart_container" -> <<T_docker, T_restart, id>>
      [] o = "remove_container" -> <<T_docker, T_rm, T_f, id>>
      [] o = "view_logs" -> <<T_docker, T_logs, T_tail, T_50, id>>
      [] o = "exec_container" -> <<T_docker, T_exec, T_it, id, T_bash>>
      [] OTHER -> <<>>

IdPrompts ==
    {"remove_image.image_id", "start_container.container_id",
     "stop_container.container_id", "restart_container.container_id",
     "remove_container.container_id", "view_logs.container_id",
     "exec_container.container_id"}

TargetId == IF op = "remove_image" THEN loc.image_id ELSE loc.container_id

NeedsConfirm == op \in {"remove_image", "remove_container"}

\* C17: a list-before-act operation has run its snapshot listing, and
\* nothing else, when it prompts for the identifier; whatever status the
\* listing exited with, a non-empty identifier (confirmed with s where a
\* confirmation is asked) has its command handed to the executor, and the
\* operation returns without that command only for an empty identifier or a
\* declined confirmation.
C17_ListingPrecedesAndDoesNotGate ==
    /\ pc \in IdPrompts =>
           /\ op \in ListFirst
           /\ Len(calls) = 1
           /\ calls[1].tokens = ListingFor(op)
           /\ calls[1].outcome.kind = "exit"
    /\ (op \in ListFirst /\ TargetId # <<>>
          /\ (NeedsConfirm => loc.confirm = <<"s">>)) =>
           /\ Len(calls) = 2
           /\ calls[1].tokens = ListingFor(op)
           /\ calls[2].tokens = TargetFor(op, TargetId)
    /\ (Returned /\ op \in ListFirst /\ Len(calls) < 2) =>
           /\ Len(calls) = 1
           /\ \/ TargetId = <<>> /\ out[Len(out)].kind = "validation"
              \/ NeedsConfirm /\ TargetId # <<>> /\ ~SaysYes(lastInput)

C17_Witness ==
    /\ Returned
    /\ op = "restart_container"
    /\ Len(calls) = 2
    /\ ExitedWith(1) = 1
    /\ HasLine("list_failed")
    /\ calls[2].tokens = <<T_docker, T_restart, W_web1>>
    /\ ExitedWith(2) = 0

\* C18: every Command handed to the executor, by the startup probe or by an
\* operation, has at least one token, docker as its first token, and no
\* empty token.
C18_CommandsWellFormed ==
    \A i \in 1..Len(calls) :
        /\ calls[i].tokens # <<>>
        /\ calls[i].tokens[1] = T_docker
        /\ \A k \in 1..Len(calls[i].tokens) : calls[i].tokens[k] # <<>>

C18_Witness ==
    /\ op = "build_image"
    /\ Len(calls) = 1
    /\ calls[1].tokens = <<T_docker, T_build, T_t, W_nginx, T_dot>>
    /\ lastInput = <<" ">> \o W_nginx

SubMenus == {"ImageMenu", "ContainerMenu", "SystemMenu"}

\* C19: the controller leaves Startup only for MainMenu, MainMenu only for a
\* submenu or Exit, a submenu only for MainMenu or Exit; a submenu reaches
\* MainMenu by its back option, with no operation and no executor call;
\* Exit is reached without a fault only from MainMenu, by option 4, and from
\* a submenu only by an interrupt or a fault; nothing happens after Exit.
C19_StructuralTransitions ==
    [][ /\ state # "Exit"
        /\ pc # "done"
        /\ state' # state =>
               \/ state = "Startup" /\ state' = "MainMenu"
               \/ state = "MainMenu" /\ state' \in SubMenus \cup {"Exit"}
               \/ state \in SubMenus /\ state' \in {"MainMenu", "Exit"}
        /\ (state = "MainMenu" /\ state' \in SubMenus) =>
               /\ event' = "line"
               /\ Strip(lastInput') \in { <<"1">>, <<"2">>, <<"3">> }
               /\ op' = "none" /\ calls' = <<>> /\ pc' = "choice"
        /\ (state \in SubMenus /\ state' = "MainMenu") =>
               /\ event' = "line"
               /\ pc = "choice" /\ pc' = "choice"
               /\ Strip(lastInput') =
                      (CASE state = "ImageMenu" -> <<"5">>
                         [] state = "ContainerMenu" -> <<"1", "0">>
                         [] OTHER -> <<"4">>)
               /\ op' = "none"
               /\ calls' = <<>>
               /\ out' = <<L("menu")>>
        /\ (state' = "Exit" /\ fault' = NoFault) =>
               /\ state = "MainMenu"
               /\ pc = "choice"
               /\ event' = "line"
               /\ Strip(lastInput') = <<"4">>
               /\ calls' = <<>>
               /\ exitStatus' = 0
        /\ (state \in SubMenus /\ state' = "Exit") =>
               fault'.exc \in {"KeyboardInterrupt", "EOFError",
                               "FileNotFoundError", "PermissionError"}
        /\ state' = "Exit" => pc' = "done"
      ]_vars

C19_Witness ==
    /\ state = "MainMenu"
    /\ pc = "choice"
    /\ event = "line"
    /\ lastInput = <<"1", "0", " ">>
    /\ op = "none"
    /\ calls = <<>>

=============================================================================
